---------------------------- MODULE Spec2Model ----------------------------
(***************************************************************************)
(* The Calculator component of src/src/Calculator.jsx as a state machine.  *)
(*                                                                         *)
(* A JavaScript string is a sequence of one-character strings, so that     *)
(* join, replaceAll, match and the template literals are computed          *)
(* character by character.  The JavaScript value undefined and the value   *)
(* null are the two sequences Undefined and Null, which no string equals   *)
(* because their only element is not one character long.                   *)
(*                                                                         *)
(* Every event handler runs to completion on the state of the last render  *)
(* (React batches the setters a handler calls), so one handler is one      *)
(* action.  The dependency lists of the useCallback hooks name every state *)
(* value the callbacks read, so no callback sees a stale state.            *)
(***************************************************************************)
EXTENDS Integers, Sequences, FiniteSets, TLC

\* Longest token sequence the keypad may build (appends stop there).
MaxLen == 3
\* Largest magnitude of a number the evaluator model represents.
MaxVal == 4
\* Longest token sequence in the runs that include the keyboard.
MaxKeyLen == 2

Undefined == <<"undefined">>
Null == <<"null">>

Letters ==
    {"a", "b", "c", "d", "e", "f", "g", "h", "i", "j", "k", "l", "m", "n", "o",
     "p", "q", "r", "s", "t", "u", "v", "w", "x", "y", "z", "A", "B", "C", "D",
     "E", "F", "G", "H", "I", "J", "K", "L", "M", "N", "O", "P", "Q", "R", "S",
     "T", "U", "V", "W", "X", "Y", "Z"}
Digits == {"0", "1", "2", "3", "4", "5", "6", "7", "8", "9"}

\* The inputs the keypad buttons pass to handleNumberInput and to
\* handleOperationInput (a subset of the digits keeps the state space small).
NumInputs == {<<"0">>, <<"2">>, <<".">>}
OpInputs == {<<"+">>, <<"-">>, <<"×">>, <<"÷">>, <<"(">>, <<")">>}

---------------------------------------------------------------------------
(* JavaScript built-ins the handlers use *)

\* Array.prototype.join(""): undefined and null elements join as "".
RECURSIVE parseExpression(_)
parseExpression(expression) ==
    IF expression = <<>> THEN <<>>
    ELSE (IF Head(expression) \in {Undefined, Null} THEN <<>> ELSE Head(expression))
         \o parseExpression(Tail(expression))

\* String.prototype.replaceAll(/from/g, to) for a one-character pattern.
replaceAll(str, from, to) ==
    [i \in 1..Len(str) |-> IF str[i] = from THEN to ELSE str[i]]

\* slice(1) in place of slice(0, -1): drops the first element.
sliceDropFirst(arr) ==
    IF arr = <<>> THEN <<>> ELSE Tail(arr)

\* Array.prototype.slice(0, -1)
sliceDropLast(arr) ==
    IF arr = <<>> THEN <<>> ELSE SubSeq(arr, 1, Len(arr) - 1)

\* arr[i] for a zero-based index i: undefined outside the array.
At(arr, i) ==
    IF i + 1 \in 1..Len(arr) THEN arr[i + 1] ELSE Undefined

\* A match anchored at the start of the string, /^[A-Za-z]+/.
matchesLettersAtStart(str) ==
    str # <<>> /\ str[1] \in Letters

\* str.match(/[A-Za-z]+/g) is non-null.
matchesLetters(str) ==
    \E i \in 1..Len(str) : str[i] \in Letters

\* Number.prototype.toString() of a non-negative integer.
RECURSIVE NatToString(_)
NatToString(n) ==
    LET d == <<"0", "1", "2", "3", "4", "5", "6", "7", "8", "9">>[(n % 10) + 1]
    IN  IF n < 10 THEN <<d>> ELSE NatToString(n \div 10) \o <<d>>


---------------------------------------------------------------------------
(* The numbers math.evaluate computes with: JavaScript doubles, of which   *)
(* the model represents the integers up to MaxVal in magnitude, negative   *)
(* zero, the two infinities and NaN.  Unrepresented is every other double. *)
(* UndefSym(name) stands for the evaluation of a symbol mathjs does not    *)
(* know, which throws when it is reached.                                  *)

Fin(n) == <<"fin", n>>
NegZero == <<"nzero", 0>>
Inf(sign) == <<"inf", sign>>
NaNValue == <<"nan", 0>>
Unrepresented == <<"unrep", 0>>
UndefSym(name) == <<"undef", name>>

IsZero(v) == v = Fin(0) \/ v = NegZero
Magnitude(v) == IF v[1] = "fin" THEN (IF v[2] < 0 THEN -v[2] ELSE v[2]) ELSE 0
SignOf(v) ==
    CASE v[1] = "fin" -> IF v[2] < 0 THEN -1 ELSE 1
      [] v[1] = "nzero" -> -1
      [] v[1] = "inf" -> v[2]
      [] OTHER -> 1
Zero(sign) == IF sign < 0 THEN NegZero ELSE Fin(0)
Bounded(v) == IF Magnitude(v) > MaxVal THEN Unrepresented ELSE v

\* What an operator does with operands that are not all numbers: the
\* leftmost unknown symbol throws first (operands evaluate left to right).
Strict(a, b, num) ==
    CASE a[1] = "undef" -> a
      [] a[1] = "unrep" -> IF b[1] = "undef" THEN b ELSE Unrepresented
      [] b[1] \in {"undef", "unrep"} -> b
      [] a = NaNValue \/ b = NaNValue -> NaNValue
      [] OTHER -> num

unaryMinus(a) ==
    CASE a[1] = "fin" -> IF a[2] = 0 THEN NegZero ELSE Fin(-a[2])
      [] a[1] = "nzero" -> Fin(0)
      [] a[1] = "inf" -> Inf(-a[2])
      [] OTHER -> a

add(a, b) ==
    Strict(a, b,
        CASE a[1] = "inf" /\ b[1] = "inf" -> IF a[2] = b[2] THEN a ELSE NaNValue
          [] a[1] = "inf" -> a
          [] b[1] = "inf" -> b
          [] IsZero(a) /\ IsZero(b) ->
                IF a = NegZero /\ b = NegZero THEN NegZero ELSE Fin(0)
          [] OTHER -> Bounded(Fin(a[2] + b[2])))

subtract(a, b) == add(a, unaryMinus(b))

multiply(a, b) ==
    Strict(a, b,
        CASE (a[1] = "inf" /\ IsZero(b)) \/ (IsZero(a) /\ b[1] = "inf") -> NaNValue
          [] a[1] = "inf" \/ b[1] = "inf" -> Inf(SignOf(a) * SignOf(b))
          [] IsZero(a) \/ IsZero(b) -> Zero(SignOf(a) * SignOf(b))
          [] OTHER -> Bounded(Fin(a[2] * b[2])))

divide(a, b) ==
    Strict(a, b,
        CASE a[1] = "inf" /\ b[1] = "inf" -> NaNValue
          [] a[1] = "inf" -> Inf(SignOf(a) * SignOf(b))
          [] b[1] = "inf" -> Zero(SignOf(a) * SignOf(b))
          [] IsZero(a) /\ IsZero(b) -> NaNValue
          [] IsZero(b) -> Inf(SignOf(a) * SignOf(b))
          [] IsZero(a) -> Zero(SignOf(a) * SignOf(b))
          [] Magnitude(a) % Magnitude(b) = 0 ->
                Fin(SignOf(a) * SignOf(b) * (Magnitude(a) \div Magnitude(b)))
          [] OTHER -> Unrepresented)

\* Number.prototype.toString() of a represented double.
numberToString(v) ==
    CASE v[1] = "fin" ->
            IF v[2] < 0 THEN <<"-">> \o NatToString(-v[2]) ELSE NatToString(v[2])
      [] v[1] = "nzero" -> <<"0">>
      [] v[1] = "inf" ->
            (IF v[2] < 0 THEN <<"-">> ELSE <<>>)
            \o <<"I", "n", "f", "i", "n", "i", "t", "y">>
      [] OTHER -> <<"N", "a", "N">>

---------------------------------------------------------------------------
(* math.evaluate (mathjs, called at Calculator.jsx line 120) on the        *)
(* expressions the calculator can build: integers, Infinity, NaN, unary    *)
(* and binary + and -, * and /, parentheses.  A parse step yields          *)
(* [k, v, p]: k = "val" with the value v and the position p of the next    *)
(* character, k = "err" with the message of the SyntaxError mathjs throws, *)
(* or k = "unmodelled" for a construct outside this fragment (a decimal    *)
(* point, implicit multiplication, a function call, any other character).  *)

Val(v, p) == [k |-> "val", v |-> v, p |-> p]
Unmodelled == [k |-> "unmodelled", v |-> Unrepresented, p |-> 0]
\* createSyntaxError: the message, then the column of the offending token.
SyntaxError(message, p) ==
    [k |-> "err", v |-> message \o <<" ", "(", "c", "h", "a", "r", " ">>
                        \o NatToString(p) \o <<")">>, p |-> p]

MsgValueExpected ==
    <<"V", "a", "l", "u", "e", " ", "e", "x", "p", "e", "c", "t", "e", "d">>
MsgUnexpectedEnd ==
    <<"U", "n", "e", "x", "p", "e", "c", "t", "e", "d", " ", "e", "n", "d", " ",
      "o", "f", " ", "e", "x", "p", "r", "e", "s", "s", "i", "o", "n">>
MsgParenthesisExpected ==
    <<"P", "a", "r", "e", "n", "t", "h", "e", "s", "i", "s", " ", ")", " ",
      "e", "x", "p", "e", "c", "t", "e", "d">>
MsgUnexpectedOperator ==
    <<"U", "n", "e", "x", "p", "e", "c", "t", "e", "d", " ", "o", "p", "e", "r",
      "a", "t", "o", "r", " ", ")">>
MsgUndefinedSymbol ==
    <<"U", "n", "d", "e", "f", "i", "n", "e", "d", " ", "s", "y", "m", "b", "o",
      "l", " ">>
\* The TypeError of undefined.toString(), as V8 words it.
MsgToStringOfUndefined ==
    <<"C", "a", "n", "n", "o", "t", " ", "r", "e", "a", "d", " ", "p", "r", "o",
      "p", "e", "r", "t", "i", "e", "s", " ", "o", "f", " ", "u", "n", "d", "e",
      "f", "i", "n", "e", "d", " ", "(", "r", "e", "a", "d", "i", "n", "g", " ",
      "'", "t", "o", "S", "t", "r", "i", "n", "g", "'", ")">>

\* The first position at or after p whose character is not in chars.
RECURSIVE ScanWhile(_, _, _)
ScanWhile(s, p, chars) ==
    IF p <= Len(s) /\ s[p] \in chars THEN ScanWhile(s, p + 1, chars) ELSE p

RECURSIVE DigitsValue(_)
DigitsValue(ds) ==
    IF ds = <<>> THEN 0
    ELSE LET last == ds[Len(ds)]
             d == CHOOSE n \in 0..9 : NatToString(n) = <<last>>
             rest == DigitsValue(SubSeq(ds, 1, Len(ds) - 1))
         IN  IF rest > MaxVal THEN MaxVal + 1 ELSE 10 * rest + d

\* A value must be followed by a binary operator, by ")" or by the end.
AfterValue(s, v, p) ==
    IF p <= Len(s) /\ s[p] \notin {"+", "-", "*", "/", ")"}
    THEN Unmodelled ELSE Val(v, p)

\* The value of a symbol (mathjs knows the constants Infinity and NaN).
SymbolValue(name) ==
    CASE name = <<"I", "n", "f", "i", "n", "i", "t", "y">> -> Inf(1)
      [] name = <<"N", "a", "N">> -> NaNValue
      [] OTHER -> UndefSym(name)

\* The parser, by recursive descent as in mathjs.  An intermediate result
\* is bound by CHOOSE y \in {body : r \in {result}} : TRUE, which is
\* LET r == result IN body with result evaluated once.
RECURSIVE parseAddSubtract(_, _), AddSubtractRest(_, _, _, _),
          parseMultiplyDivide(_, _), MultiplyDivideRest(_, _, _, _),
          parseUnary(_, _), parsePrimary(_, _)

parsePrimary(s, p) ==
    CASE p > Len(s) -> SyntaxError(MsgUnexpectedEnd, p)
      [] s[p] \in Digits ->
            CHOOSE y \in {AfterValue(s, Bounded(Fin(DigitsValue(SubSeq(s, p, q - 1)))), q)
                            : q \in {ScanWhile(s, p, Digits)}} : TRUE
      [] s[p] \in Letters ->
            CHOOSE y \in {AfterValue(s, SymbolValue(SubSeq(s, p, q - 1)), q)
                            : q \in {ScanWhile(s, p, Letters \cup Digits)}} : TRUE
      [] s[p] = "(" ->
            CHOOSE y \in {CASE r.k # "val" -> r
                            [] r.p > Len(s) -> SyntaxError(MsgParenthesisExpected, r.p)
                            [] s[r.p] = ")" -> AfterValue(s, r.v, r.p + 1)
                            [] OTHER -> Unmodelled
                            : r \in {parseAddSubtract(s, p + 1)}} : TRUE
      [] s[p] \in {"*", "/", ")"} -> SyntaxError(MsgValueExpected, p)
      [] OTHER -> Unmodelled

parseUnary(s, p) ==
    IF p <= Len(s) /\ s[p] \in {"-", "+"}
    THEN CHOOSE y \in {IF r.k = "val" /\ s[p] = "-"
                       THEN Val(unaryMinus(r.v), r.p) ELSE r
                            : r \in {parseUnary(s, p + 1)}} : TRUE
    ELSE parsePrimary(s, p)

\* left is a parse step; k, v, p are its fields.
MultiplyDivideRest(s, k, v, p) ==
    IF k = "val" /\ p <= Len(s) /\ s[p] \in {"*", "/"}
    THEN CHOOSE y \in {IF right.k # "val" THEN right
                       ELSE MultiplyDivideRest(s, "val",
                                IF s[p] = "*" THEN multiply(v, right.v)
                                ELSE divide(v, right.v), right.p)
                            : right \in {parseUnary(s, p + 1)}} : TRUE
    ELSE [k |-> k, v |-> v, p |-> p]

parseMultiplyDivide(s, p) ==
    CHOOSE y \in {MultiplyDivideRest(s, left.k, left.v, left.p)
                    : left \in {parseUnary(s, p)}} : TRUE

AddSubtractRest(s, k, v, p) ==
    IF k = "val" /\ p <= Len(s) /\ s[p] \in {"+", "-"}
    THEN CHOOSE y \in {IF right.k # "val" THEN right
                       ELSE AddSubtractRest(s, "val",
                                IF s[p] = "+" THEN add(v, right.v)
                                ELSE subtract(v, right.v), right.p)
                            : right \in {parseMultiplyDivide(s, p + 1)}} : TRUE
    ELSE [k |-> k, v |-> v, p |-> p]

parseAddSubtract(s, p) ==
    CHOOSE y \in {AddSubtractRest(s, left.k, left.v, left.p)
                    : left \in {parseMultiplyDivide(s, p)}} : TRUE

\* What math.evaluate does once the expression is parsed up to r.
EvaluateParsed(expr, r) ==
    CASE r.k = "err" -> [k |-> "throw", v |-> r.v]
      [] r.k = "unmodelled" -> [k |-> "unmodelled", v |-> Unrepresented]
      [] r.p <= Len(expr) ->
            IF expr[r.p] = ")"
            THEN [k |-> "throw", v |-> SyntaxError(MsgUnexpectedOperator, r.p).v]
            ELSE [k |-> "unmodelled", v |-> Unrepresented]
      [] r.v[1] = "undef" -> [k |-> "throw", v |-> MsgUndefinedSymbol \o r.v[2]]
      [] r.v[1] = "unrep" -> [k |-> "unmodelled", v |-> Unrepresented]
      [] OTHER -> [k |-> "return", v |-> r.v]

\* math.evaluate(expr): [k |-> "return", v |-> the value], where v is
\* Undefined for the empty expression; [k |-> "throw", v |-> e.message];
\* or k = "unmodelled".
mathEvaluate(expr) ==
    IF expr = <<>> THEN [k |-> "return", v |-> Undefined]
    ELSE CHOOSE y \in {EvaluateParsed(expr, r) : r \in {parseAddSubtract(expr, 1)}} : TRUE

\* Lines 119-125: math.evaluate(expressionParsed).toString() inside try.
\* [k |-> "ok", v |-> resultOfComputation], [k |-> "caught", v |-> e.message]
\* or k = "unmodelled".
\* result.toString() placed after the try statement: the TypeError of an
\* undefined result leaves the handler.
TryToStringOutsideTry(r) ==
    CASE r.k = "throw" -> [k |-> "caught", v |-> r.v]
      [] r.k = "unmodelled" -> [k |-> "unmodelled", v |-> <<>>]
      [] r.v = Undefined -> [k |-> "propagated", v |-> MsgToStringOfUndefined]
      [] OTHER -> [k |-> "ok", v |-> numberToString(r.v)]

TryToString(r) ==
    CASE r.k = "throw" -> [k |-> "caught", v |-> r.v]
      [] r.k = "unmodelled" -> [k |-> "unmodelled", v |-> <<>>]
      [] r.v = Undefined -> [k |-> "caught", v |-> MsgToStringOfUndefined]
      [] OTHER -> [k |-> "ok", v |-> numberToString(r.v)]

tryEvaluate(expr) ==
    CHOOSE y \in {TryToString(r) : r \in {mathEvaluate(expr)}} : TRUE

---------------------------------------------------------------------------
(* The state of the Calculator component (lines 75-77) *)

VARIABLES
    expressionAndResult,     \* {expression, result, needsReset}
    resultIsError,
    previousNonErrorResult,  \* Null or the last raw result string
    lastHandler              \* history: the handler that ran last

\* The Session of the component, and all the variables.
session == <<expressionAndResult, resultIsError, previousNonErrorResult>>
vars == <<expressionAndResult, resultIsError, previousNonErrorResult, lastHandler>>

expression == expressionAndResult.expression
result == expressionAndResult.result
needsReset == expressionAndResult.needsReset

\* lastHandler: the handler's name, its argument (<<>> if it has none; for
\* computeExpression the string it handed to math.evaluate), needsReset when
\* it was called, whether the evaluator threw in it, and inputs: the
\* arguments of the handlers called so far while they were all
\* handleNumberInput and handleOperationInput calls, Null after any other.
Ran(name, arg, threw) ==
    [name |-> name, arg |-> arg, reset |-> needsReset, threw |-> threw,
     inputs |-> IF name \in {"handleNumberInput", "handleOperationInput"}
                   /\ lastHandler.inputs # Null
                THEN Append(lastHandler.inputs, arg) ELSE Null]

Init ==
    /\ expressionAndResult = [expression |-> <<>>, result |-> <<>>, needsReset |-> FALSE]
    /\ resultIsError = FALSE
    /\ previousNonErrorResult = Null
    /\ lastHandler = [name |-> "none", arg |-> <<>>, reset |-> FALSE, threw |-> FALSE,
                      inputs |-> <<>>]

\* resetExpression without its setResultIsError(false).
resetExpressionKeepsError(newExpression) ==
    /\ expressionAndResult' =
            [expression |-> newExpression, result |-> <<>>, needsReset |-> FALSE]
    /\ UNCHANGED resultIsError

\* Lines 95-98.
resetExpression(newExpression) ==
    /\ expressionAndResult' =
            [expression |-> newExpression, result |-> <<>>, needsReset |-> FALSE]
    /\ resultIsError' = FALSE

\* [token, ...expressionAndResult.expression]: the token goes in front.
appendTokenInFront(token) ==
    /\ expressionAndResult' =
            [expression |-> <<token>> \o expression, result |-> <<>>,
             needsReset |-> FALSE]
    /\ UNCHANGED resultIsError

\* Lines 83 and 91: [...expressionAndResult.expression, token].
appendToken(token) ==
    /\ expressionAndResult' =
            [expression |-> Append(expression, token), result |-> <<>>,
             needsReset |-> FALSE]
    /\ UNCHANGED resultIsError

\* Resuming from the displayed result whatever previousNonErrorResult is.
resumeFromDisplay == At(result, 1)

\* Line 89: the operand an operator resumes from after a result.
resumeValue ==
    IF previousNonErrorResult # Null THEN previousNonErrorResult ELSE At(result, 1)

\* Lines 79-85.
handleNumberInput(num) ==
    /\ IF needsReset THEN resetExpression(<<num>>) ELSE appendToken(num)
    /\ UNCHANGED previousNonErrorResult
    /\ lastHandler' = Ran("handleNumberInput", num, FALSE)

\* Lines 87-93.
handleOperationInput(op) ==
    /\ IF needsReset THEN resetExpression(<<resumeValue, op>>) ELSE appendToken(op)
    /\ UNCHANGED previousNonErrorResult
    /\ lastHandler' = Ran("handleOperationInput", op, FALSE)

\* clearInput that also forgets the last result.
clearInputForgetsResult ==
    /\ expressionAndResult' = [expression |-> <<>>, result |-> <<>>, needsReset |-> FALSE]
    /\ resultIsError' = FALSE
    /\ previousNonErrorResult' = Null
    /\ lastHandler' = Ran("clearInput", <<>>, FALSE)

\* clearInput without its setResultIsError(false).
clearInputKeepsError ==
    /\ expressionAndResult' = [expression |-> <<>>, result |-> <<>>, needsReset |-> FALSE]
    /\ UNCHANGED <<resultIsError, previousNonErrorResult>>
    /\ lastHandler' = Ran("clearInput", <<>>, FALSE)

\* Lines 100-103.
clearInput ==
    /\ expressionAndResult' = [expression |-> <<>>, result |-> <<>>, needsReset |-> FALSE]
    /\ resultIsError' = FALSE
    /\ UNCHANGED previousNonErrorResult
    /\ lastHandler' = Ran("clearInput", <<>>, FALSE)

\* backspace that patches the expression and leaves the result in place.
backspaceKeepsResult ==
    /\ expressionAndResult' =
            [expressionAndResult EXCEPT !.expression = sliceDropLast(expression)]
    /\ UNCHANGED <<resultIsError, previousNonErrorResult>>
    /\ lastHandler' = Ran("backspace", <<>>, FALSE)

\* Lines 105-107.
backspace ==
    /\ expressionAndResult' =
            [expression |-> sliceDropLast(expression), result |-> <<>>,
             needsReset |-> FALSE]
    /\ UNCHANGED <<resultIsError, previousNonErrorResult>>
    /\ lastHandler' = Ran("backspace", <<>>, FALSE)

\* The two glyphs mixed up: "×" becomes "/" and "÷" becomes "*".
expressionParsedSwapped(tokens) ==
    replaceAll(replaceAll(parseExpression(tokens), "×", "/"), "÷", "*")

\* Lines 114-117: the string handed to math.evaluate.
expressionParsed(tokens) ==
    replaceAll(replaceAll(parseExpression(tokens), "×", "*"), "÷", "/")

ErrorPrefix == <<"E", "r", "r", "o", "r", ":", " ">>

\* The error result as two elements, the prefix and the message.
errorResultTwoElements(message) == << ErrorPrefix, message >>

\* Line 123: the result array of a failed evaluation, `Error: ${e.message}`.
errorResult(message) == << ErrorPrefix \o message >>

\* A catch branch that drops the expression that failed.
catchBranchClearsExpression(message) ==
    /\ resultIsError' = TRUE
    /\ expressionAndResult' =
            [expression |-> <<>>, result |-> errorResult(message), needsReset |-> TRUE]
    /\ UNCHANGED previousNonErrorResult

\* Lines 122-124: the catch branch.
catchBranch(message) ==
    /\ resultIsError' = TRUE
    /\ expressionAndResult' =
            [expression |-> expression, result |-> errorResult(message),
             needsReset |-> TRUE]
    /\ UNCHANGED previousNonErrorResult

\* Line 127.
resultDisplay(resultOfComputation) ==
    IF matchesLetters(resultOfComputation)
    THEN <<"\\", "t", "e", "x", "t", "{">> \o resultOfComputation \o <<"}">>
    ELSE resultOfComputation

\* A success that empties the expression it evaluated.
successBranchForgetsExpression(resultOfComputation) ==
    /\ expressionAndResult' =
            [expression |-> <<>>,
             result |-> << <<"=">>, resultDisplay(resultOfComputation) >>,
             needsReset |-> TRUE]
    /\ previousNonErrorResult' = resultOfComputation
    /\ UNCHANGED resultIsError

\* Lines 127-129: the statements after a successful evaluation.
successBranch(resultOfComputation) ==
    /\ expressionAndResult' =
            [expression |-> expression,
             result |-> << <<"=">>, resultDisplay(resultOfComputation) >>,
             needsReset |-> TRUE]
    /\ previousNonErrorResult' = resultOfComputation
    /\ UNCHANGED resultIsError

\* Lines 113-130.  The step is taken for the expressions the evaluator
\* model covers.  An exception that left the handler would end it before
\* any setter is called.
computeExpression ==
    \E outcome \in {tryEvaluate(expressionParsed(expression))} :
        /\ outcome.k # "unmodelled"
        /\ CASE outcome.k = "caught" -> catchBranch(outcome.v)
             [] outcome.k = "ok" -> successBranch(outcome.v)
             [] OTHER -> UNCHANGED session
        /\ lastHandler' =
                Ran("computeExpression", expressionParsed(expression), outcome.k # "ok")

KeyBackspace == <<"B", "a", "c", "k", "s", "p", "a", "c", "e">>
KeyDelete == <<"D", "e", "l", "e", "t", "e">>

\* The keydown events, as <<key, shiftKey>>: the events of the comment at
\* lines 132-142, and others: a function key, "/" and Backspace with shift
\* held, a letter.
MappedKeyEvents ==
    {<< <<"0">>, FALSE >>, << <<"2">>, FALSE >>, << <<".">>, FALSE >>,
     << <<"-">>, FALSE >>,
     << <<"/">>, FALSE >>, << <<"(">>, TRUE >>, << <<")">>, TRUE >>,
     << <<"+">>, TRUE >>, << <<"*">>, TRUE >>, << <<"=">>, FALSE >>,
     << KeyBackspace, FALSE >>, << KeyDelete, FALSE >>}
OtherKeyEvents ==
    {<< <<"F", "1">>, FALSE >>, << <<"/">>, TRUE >>, << KeyBackspace, TRUE >>,
     << <<"a">>, FALSE >>}
KeyEvents == MappedKeyEvents \cup OtherKeyEvents

\* key.match(/[chars]/g) is non-null: some character of key is in the class.
matchesClass(key, chars) ==
    \E i \in 1..Len(key) : key[i] \in chars

\* keyDownHandler that hands "*" and "/" on as they are, without the
\* display glyphs.
keyDownHandlerWithoutGlyphs(key, shiftKey) ==
    CASE shiftKey /\ matchesClass(key, {"/", "(", ")"}) -> handleNumberInput(key)
      [] shiftKey /\ ~matchesClass(key, {"/", "(", ")"})
                  /\ matchesClass(key, {"/", "*", "+"}) -> handleOperationInput(key)
      [] ~shiftKey /\ matchesClass(key, Digits \cup {".", "/", "-"}) ->
            IF key \in {<<"/">>, <<"-">>} THEN handleOperationInput(key)
            ELSE handleNumberInput(key)
      [] ~shiftKey /\ ~matchesClass(key, Digits \cup {".", "/", "-"})
                   /\ key \in {KeyBackspace, KeyDelete} -> backspace
      [] ~shiftKey /\ ~matchesClass(key, Digits \cup {".", "/", "-"})
                   /\ key = <<"=">> -> computeExpression
      [] OTHER -> UNCHANGED <<session, lastHandler>>

\* Lines 145-170.
keyDownHandler(key, shiftKey) ==
    CASE shiftKey /\ matchesClass(key, {"/", "(", ")"}) -> handleNumberInput(key)
      [] shiftKey /\ ~matchesClass(key, {"/", "(", ")"})
                  /\ matchesClass(key, {"/", "*", "+"}) ->
            IF key = <<"*">> THEN handleOperationInput(<<"×">>)
            ELSE handleOperationInput(key)
      [] ~shiftKey /\ matchesClass(key, Digits \cup {".", "/", "-"}) ->
            IF key = <<"/">> THEN handleOperationInput(<<"÷">>)
            ELSE IF key = <<"-">> THEN handleOperationInput(key)
            ELSE handleNumberInput(key)
      [] ~shiftKey /\ ~matchesClass(key, Digits \cup {".", "/", "-"})
                   /\ key \in {KeyBackspace, KeyDelete} -> backspace
      [] ~shiftKey /\ ~matchesClass(key, Digits \cup {".", "/", "-"})
                   /\ key = <<"=">> -> computeExpression
      [] OTHER -> UNCHANGED <<session, lastHandler>>

\* A step that keeps the token sequence to MaxLen tokens.
WithinMaxLen == Len(expression') <= MaxLen

\* The keypad (lines 183-202).
Next ==
    \/ \E num \in NumInputs : handleNumberInput(num) /\ WithinMaxLen
    \/ \E op \in OpInputs : handleOperationInput(op) /\ WithinMaxLen
    \/ clearInput
    \/ backspace
    \/ computeExpression

Spec == Init /\ [][Next]_vars

\* The two parenthesis buttons of the keypad (lines 183-184).
ParenInputs == {<<"(">>, <<")">>}

\* A step that keeps the token sequence to MaxKeyLen tokens.
WithinMaxKeyLen == Len(expression') <= MaxKeyLen

\* The keyboard (lines 171-172), with the keypad buttons that no key stands
\* for in every state: the parentheses, which the keypad routes through
\* handleOperationInput, and AC.
NextKeys ==
    \/ \E e \in KeyEvents : keyDownHandler(e[1], e[2]) /\ WithinMaxKeyLen
    \/ \E op \in ParenInputs : handleOperationInput(op) /\ WithinMaxKeyLen
    \/ clearInput

SpecKeys == Init /\ [][NextKeys]_vars

---------------------------------------------------------------------------
(* Properties *)

HasPrefix(str, prefix) ==
    Len(str) >= Len(prefix) /\ SubSeq(str, 1, Len(prefix)) = prefix

\* resultTokens holds an error payload: its text begins with "Error: ".
HoldsErrorPayload(r) == r # <<>> /\ HasPrefix(r[1], ErrorPrefix)

\* lastHandler is a successful, respectively a failed, Evaluate.
EvaluateSucceeded == lastHandler.name = "computeExpression" /\ ~lastHandler.threw
EvaluateFailed == lastHandler.name = "computeExpression" /\ lastHandler.threw

IsAppend(h) == h.name \in {"handleNumberInput", "handleOperationInput"}

\* C1: in every reachable state the error flag is true exactly when
\* resultTokens holds an error payload, and so is false whenever
\* resultTokens is empty or holds a success result.
C1_ErrorFlagIffErrorPayload ==
    resultIsError <=> HoldsErrorPayload(result)

\* C2: after every successful Evaluate the error flag is false,
\* resultTokens is ["=", processedResult] and needsReset is true.
C2_SuccessClearsErrorFlag ==
    EvaluateSucceeded =>
        /\ ~resultIsError
        /\ result = << <<"=">>, resultDisplay(previousNonErrorResult) >>
        /\ needsReset

\* C3: Append operator(op) in a Result state yields tokens = [resumeValue,
\* op], empty resultTokens and needsReset false, where resumeValue is
\* lastGoodResult if set and else the second element of the previous
\* resultTokens; after a successful Evaluate that is the raw result just
\* computed, after a failed one the most recent successful result if there
\* is one.  Outside a Result state op is appended to tokens and the state
\* stays Composing.
C3_OperatorResumes ==
    [][lastHandler'.name = "handleOperationInput" =>
        /\ result' = <<>>
        /\ ~needsReset'
        /\ IF needsReset
           THEN /\ expression' =
                    << IF previousNonErrorResult # Null
                       THEN previousNonErrorResult ELSE At(result, 1),
                       lastHandler'.arg >>
                /\ EvaluateSucceeded =>
                        expression'[1] = tryEvaluate(expressionParsed(expression)).v
                /\ EvaluateFailed /\ previousNonErrorResult # Null =>
                        expression'[1] = previousNonErrorResult
           ELSE expression' = Append(expression, lastHandler'.arg)
    ]_vars

\* An operator resumed in a Result state from a last result of several
\* characters.
C3_Witness ==
    /\ lastHandler.name = "handleOperationInput"
    /\ lastHandler.reset
    /\ resultIsError = FALSE
    /\ Len(expression) = 2
    /\ expression[1] = previousNonErrorResult
    /\ Len(expression[1]) > 1

\* C4: Append digit/point(d) in a Result state yields tokens = [d], empty
\* resultTokens, needsReset false and the error flag false; with needsReset
\* false it yields the old tokens followed by d, resultTokens empty and
\* needsReset false.
C4_DigitStartsFreshOrAppends ==
    [][lastHandler'.name = "handleNumberInput" =>
        /\ result' = <<>>
        /\ ~needsReset'
        /\ IF needsReset
           THEN expression' = << lastHandler'.arg >> /\ ~resultIsError'
           ELSE expression' = Append(expression, lastHandler'.arg)
    ]_vars

\* A digit typed in a Result state after an earlier success.
C4_Witness ==
    /\ lastHandler.name = "handleNumberInput"
    /\ lastHandler.reset
    /\ expression = << lastHandler.arg >>
    /\ previousNonErrorResult # Null
    /\ ~resultIsError

\* C5: every Append digit/point and every Append operator leaves the
\* error flag false.
C5_AppendClearsErrorFlag ==
    IsAppend(lastHandler) => ~resultIsError

\* C6: a failed Evaluate leaves a non-empty error payload in resultTokens,
\* the error flag true, needsReset true, and tokens and lastGoodResult as
\* they were before the call.
C6_FailureKeepsTokens ==
    [][lastHandler'.name = "computeExpression" /\ lastHandler'.threw =>
        /\ HoldsErrorPayload(result')
        /\ Len(result'[1]) > Len(ErrorPrefix)
        /\ resultIsError'
        /\ needsReset'
        /\ expression' = expression
        /\ previousNonErrorResult' = previousNonErrorResult
    ]_vars

\* A failed Evaluate of a non-empty expression after an earlier success.
C6_Witness ==
    /\ EvaluateFailed
    /\ expression # <<>>
    /\ previousNonErrorResult # Null
    /\ resultIsError

\* C7, as stated: resultTokens is empty, ["=", resultDisplayString] or the
\* two-element ["Error: ", message].
C7_ThreeShapesAsStated ==
    \/ result = <<>>
    \/ Len(result) = 2 /\ result[1] = <<"=">>
    \/ Len(result) = 2 /\ result[1] = ErrorPrefix

\* C7, amended: resultTokens is empty, or ["=", resultDisplayString] with
\* the display form of the last raw result, or the one-element sequence
\* whose only string is "Error: " followed by the evaluator's message for
\* the current tokens.
C7_ThreeShapes ==
    \/ result = <<>>
    \/ /\ Len(result) = 2
       /\ result[1] = <<"=">>
       /\ result[2] = resultDisplay(previousNonErrorResult)
    \/ /\ Len(result) = 1
       /\ tryEvaluate(expressionParsed(expression)).k = "caught"
       /\ result[1] = ErrorPrefix \o tryEvaluate(expressionParsed(expression)).v

\* An error result on display.
C7_Witness ==
    EvaluateFailed /\ Len(result) = 1 /\ HasPrefix(result[1], ErrorPrefix)

\* C8: lastGoodResult changes only in a successful Evaluate, where it
\* becomes the raw, unwrapped result string; every other operation and a
\* failed Evaluate leave it unchanged, so once set it is never null again.
C8_LastGoodResultFrame ==
    [][/\ previousNonErrorResult' # previousNonErrorResult =>
            lastHandler'.name = "computeExpression" /\ ~lastHandler'.threw
       /\ lastHandler'.name = "computeExpression" /\ ~lastHandler'.threw =>
            /\ previousNonErrorResult' = tryEvaluate(expressionParsed(expression)).v
            /\ ~HasPrefix(previousNonErrorResult', <<"\\", "t", "e", "x", "t", "{">>)
            /\ previousNonErrorResult' # Null
       /\ previousNonErrorResult # Null => previousNonErrorResult' # Null
    ]_vars

\* Clear ran after a success and the last result is still there.
C8_Witness ==
    /\ lastHandler.name = "clearInput"
    /\ lastHandler.reset
    /\ previousNonErrorResult # Null
    /\ matchesLetters(previousNonErrorResult)

\* C9: needsReset is true iff resultTokens is non-empty; resultTokens is
\* non-empty only after Evaluate, and every Append, Backspace and Clear
\* leaves it empty with needsReset false.
C9_NeedsResetIffResult ==
    /\ needsReset <=> result # <<>>
    /\ result # <<>> => lastHandler.name = "computeExpression"
    /\ lastHandler.name \in {"handleNumberInput", "handleOperationInput",
                             "backspace", "clearInput"} =>
            result = <<>> /\ ~needsReset

\* Backspace ran in a Result state.
C9_Witness ==
    /\ lastHandler.name = "backspace"
    /\ lastHandler.reset
    /\ result = <<>>
    /\ ~needsReset

\* C10: Backspace yields the previous tokens without their last element
\* (empty stays empty), resultTokens empty and needsReset false; in a
\* Result state it keeps the evaluated expression minus its last token,
\* and the next digit appends to it.
C10_BackspaceDropsLast ==
    [][/\ lastHandler'.name = "backspace" =>
            /\ IF expression = <<>> THEN expression' = <<>>
               ELSE Append(expression', expression[Len(expression)]) = expression
            /\ result' = <<>>
            /\ ~needsReset'
       /\ lastHandler.name = "backspace" /\ lastHandler'.name = "handleNumberInput" =>
            expression' = Append(expression, lastHandler'.arg)
    ]_vars

\* Backspace in a Result state kept all but the last of three tokens.
C10_Witness ==
    /\ lastHandler.name = "backspace"
    /\ lastHandler.reset
    /\ Len(expression) = 2
    /\ expression[1] # expression[2]

\* C11: Clear, from any reachable state, yields tokens empty, resultTokens
\* empty, needsReset false and the error flag false, and leaves
\* lastGoodResult at its previous value.
C11_ClearFrame ==
    [][lastHandler'.name = "clearInput" =>
        /\ expression' = <<>>
        /\ result' = <<>>
        /\ ~needsReset'
        /\ ~resultIsError'
        /\ previousNonErrorResult' = previousNonErrorResult
    ]_vars

\* Clear ran in a Result state, after an earlier success.
C11_Witness ==
    /\ lastHandler.name = "clearInput"
    /\ lastHandler.reset
    /\ previousNonErrorResult # Null
    /\ ~matchesLetters(previousNonErrorResult)
    /\ expression = <<>>
    /\ ~resultIsError

\* The inputs one after the other, as one string.
RECURSIVE Concatenation(_)
Concatenation(inputs) ==
    IF inputs = <<>> THEN <<>>
    ELSE Concatenation(SubSeq(inputs, 1, Len(inputs) - 1)) \o inputs[Len(inputs)]

\* C12: from the empty initial session, after any sequence of Append
\* digit/point and Append operator operations and nothing else, the
\* displayed expression (tokens joined with no separator) is the
\* concatenation of the inputs in the order they were applied, and tokens
\* has one element per input.
C12_JoinIsConcatenation ==
    lastHandler.inputs # Null =>
        /\ parseExpression(expression) = Concatenation(lastHandler.inputs)
        /\ Len(expression) = Len(lastHandler.inputs)

\* Three appends, digits and operators among them, and nothing else since
\* the initial session.
C12_Witness ==
    /\ lastHandler.inputs # Null
    /\ Len(lastHandler.inputs) = 3
    /\ lastHandler.inputs[1] \in NumInputs
    /\ lastHandler.inputs[2] \in OpInputs
    /\ lastHandler.inputs[3] # lastHandler.inputs[1]
    /\ Len(expression) = 3

\* The characters of a string.
Characters(str) == {str[i] : i \in 1..Len(str)}

\* C13: on a successful Evaluate the stored display result is the raw
\* result wrapped as \text{...} if and only if the raw result has at least
\* one alphabetic character, and is the raw string unchanged otherwise;
\* lastGoodResult receives the raw, unwrapped string.
C13_TextWrapIffAlphabetic ==
    EvaluateSucceeded =>
        /\ previousNonErrorResult = tryEvaluate(lastHandler.arg).v
        /\ Len(result) = 2
        /\ Characters(previousNonErrorResult) \cap Letters # {} =>
                result[2] = <<"\\", "t", "e", "x", "t", "{">>
                                \o previousNonErrorResult \o <<"}">>
        /\ Characters(previousNonErrorResult) \cap Letters = {} =>
                result[2] = previousNonErrorResult

\* A successful Evaluate whose raw result has letters after a sign.
C13_Witness ==
    /\ EvaluateSucceeded
    /\ previousNonErrorResult[1] = "-"
    /\ Characters(previousNonErrorResult) \cap Letters # {}
    /\ Len(result[2]) = Len(previousNonErrorResult) + 7

\* The string with its display glyphs turned into evaluator operators.
Translated(str) ==
    [i \in 1..Len(str) |->
        CASE str[i] = "×" -> "*" [] str[i] = "÷" -> "/" [] OTHER -> str[i]]

\* C14: the string Evaluate passes to the evaluator is the separator-free
\* join of tokens with every "×" replaced by "*" and every "÷" by "/", and
\* has neither glyph; tokens keep their display glyphs after Evaluate.
C14_GlyphsTranslated ==
    [][lastHandler'.name = "computeExpression" =>
        /\ lastHandler'.arg = Translated(parseExpression(expression))
        /\ Characters(lastHandler'.arg) \cap {"×", "÷"} = {}
        /\ expression' = expression
    ]_vars

\* An Evaluate of tokens with a "÷" glyph: the evaluator got "/" and the
\* tokens still have the glyph.
C14_Witness ==
    /\ lastHandler.name = "computeExpression"
    /\ \E i \in 1..Len(expression) : expression[i] = <<"÷">>
    /\ "/" \in Characters(lastHandler.arg)
    /\ ~lastHandler.threw

\* A digit/decimal-point fragment, an operator symbol or a parenthesis.
IsToken(t) ==
    \/ t # <<>> /\ Characters(t) \subseteq Digits \cup {"."}
    \/ t \in {<<"+">>, <<"-">>, <<"×">>, <<"÷">>}
    \/ t \in {<<"(">>, <<")">>}

\* C15: in every reachable state every element of tokens is a string that
\* is a digit/decimal-point fragment, an operator symbol or a parenthesis;
\* no element is undefined or null, also after Append operator in a Result
\* state that holds an error with no earlier successful result.
C15_TokensAreStrings ==
    \A i \in 1..Len(expression) :
        expression[i] \notin {Undefined, Null} /\ IsToken(expression[i])

\* C16: every Evaluate, from any reachable state (empty tokens included)
\* and whatever the evaluator returns or raises, ends without an exception
\* leaving it, in a Result state: needsReset true and resultTokens
\* non-empty.
C16_EvaluateEndsInResult ==
    lastHandler.name = "computeExpression" =>
        /\ tryEvaluate(lastHandler.arg).k \in {"ok", "caught"}
        /\ needsReset
        /\ result # <<>>

\* An Evaluate of empty tokens: the evaluator returned undefined.
C16_Witness ==
    /\ lastHandler.name = "computeExpression"
    /\ expression = <<>>
    /\ lastHandler.threw
    /\ needsReset
    /\ result = errorResult(MsgToStringOfUndefined)

\* C20: Evaluate applied twice in a row yields the same tokens,
\* resultTokens, needsReset, error flag and lastGoodResult as applied once.
C20_EvaluateIdempotent ==
    [][lastHandler.name = "computeExpression"
       /\ lastHandler'.name = "computeExpression" => session' = session]_vars

\* A successful Evaluate that followed an Evaluate.
C20_Witness ==
    /\ EvaluateSucceeded
    /\ lastHandler.reset
    /\ expression # <<>>
    /\ result[2] = previousNonErrorResult

\* The Session operation the keyboard mapping table gives for a key event.
TabulatedOperation(key, shiftKey) ==
    CASE ~shiftKey /\ Characters(key) \subseteq Digits \cup {"."} -> handleNumberInput(key)
      [] ~shiftKey /\ key = <<"-">> -> handleOperationInput(<<"-">>)
      [] ~shiftKey /\ key = <<"/">> -> handleOperationInput(<<"÷">>)
      [] shiftKey /\ key \in {<<"(">>, <<")">>} -> handleNumberInput(key)
      [] shiftKey /\ key = <<"+">> -> handleOperationInput(<<"+">>)
      [] shiftKey /\ key = <<"*">> -> handleOperationInput(<<"×">>)
      [] ~shiftKey /\ key \in {KeyBackspace, KeyDelete} -> backspace
      [] ~shiftKey /\ key = <<"=">> -> computeExpression

\* C17: the keyboard mapper triggers the tabulated Session operation for
\* each tabulated input: unshifted digits and "." append a digit/point
\* token, unshifted "-" appends operator "-", unshifted "/" appends "÷",
\* shifted "(" and ")" append a digit-class token, shifted "+" appends "+",
\* shifted "*" appends "×", unshifted Backspace and Delete perform
\* Backspace, unshifted "=" performs Evaluate.
C17_KeysAsTabulated ==
    [][\A e \in MappedKeyEvents :
            keyDownHandler(e[1], e[2]) => TabulatedOperation(e[1], e[2])]_vars

\* A shifted "(" in a Result state: the parenthesis went in as a digit-class
\* token and started a fresh expression.
C17_Witness ==
    /\ lastHandler.name = "handleNumberInput"
    /\ lastHandler.arg = <<"(">>
    /\ lastHandler.reset
    /\ expression = << <<"(">> >>

\* C18: a key press whose key is not in the keyboard mapping table, such as
\* F1 or a shifted "/", leaves tokens, resultTokens, needsReset, the error
\* flag and lastGoodResult unchanged.
C18_OtherKeysChangeNothing ==
    [][\A e \in OtherKeyEvents :
            keyDownHandler(e[1], e[2]) => UNCHANGED session]_vars

\* C19: for each parenthesis, the shifted key leads from every reachable
\* state, Result states included, to the session the keypad button leads
\* to from that state.
C19_ParenthesisPathsAgree ==
    [][\A p \in ParenInputs :
            keyDownHandler(p, TRUE) =>
                /\ IF needsReset THEN resetExpression(<<resumeValue, p>>)
                   ELSE appendToken(p)
                /\ UNCHANGED previousNonErrorResult]_vars

=============================================================================
